---- MODULE Spec2Model ----
(***************************************************************************)
(* Agent gateway core of python-flask-ai-monitoring, stage                 *)
(* 4-python-autogen-mcp-github: the tool-adapter initialization of the     *)
(* chat server (server/agent.py), the request middleware of the tools      *)
(* server (tools/middleware/tools_middleware.py), the weather cache        *)
(* (tools/cache/weather_cache.py) and the model rotation                   *)
(* (util/llm_utils.py).                                                    *)
(*                                                                         *)
(* Each component has its own specification (SpecRegistry, SpecGateway,    *)
(* SpecCache, SpecRotator); the variables of the other components stay at  *)
(* their initial value.  Coroutines are interleaved at their await points  *)
(* only: the server runs one asyncio event loop (uvicorn.run, agent.py     *)
(* line 549), so the code between two awaits is one atomic step.           *)
(***************************************************************************)
EXTENDS Integers, Sequences, FiniteSets, TLC

(***************************************************************************)
(* Bounds of the model.                                                    *)
(***************************************************************************)
\* concurrent callers of initialize_tool_adapters
NumCallers == 2

\* ---- tool-adapter registry (server/agent.py) ----
VARIABLES
    tool_adapters_cache,        \* _tool_adapters_cache: name -> handle
    tool_adapters_initialized,  \* _tool_adapters_initialized
    init_pc,                    \* per caller: position in initialize_tool_adapters
    attempt,                    \* per caller: loop variable of the retry loop
    retry_delay,                \* per caller: current backoff delay
    tool_idx,                   \* per caller: which adapter of the batch is awaited
    init_outcome,               \* per caller: how the call ended
    init_exc,                   \* per caller: the exception e of the handler at 204-234
    batches                     \* attempts that obtained all four handles

registry_vars == <<tool_adapters_cache, tool_adapters_initialized, init_pc, attempt,
                   retry_delay, tool_idx, init_outcome, init_exc, batches>>

\* ---- request middleware (tools/middleware/tools_middleware.py) ----
VARIABLES
    scope,              \* the ASGI scope of the request: type and path
    stream,             \* the messages the server's receive() delivers, in order
    recv_count,         \* how many of them receive() has handed out
    gw_pc,              \* "start", "app" (self.app is running), "done", "failed"
    gw_exc,             \* the exception that left __call__, "none" if none
    first_message,      \* first_message
    body_cache,         \* body_cache
    body_index,         \* body_index[0]
    transaction_name,   \* the name given to set_transaction_name
    tool_name,          \* tool_name
    app_receive,        \* the receive callable self.app was called with
    delivered,          \* the messages the downstream application has read
    app_send,           \* the send callable self.app was called with
    app_sent,           \* the messages the downstream application has sent
    out_log             \* in order: the attributes attached and the messages given to send

gateway_vars == <<scope, stream, recv_count, gw_pc, gw_exc, first_message, body_cache,
                  body_index, transaction_name, tool_name, app_receive, delivered,
                  app_send, app_sent, out_log>>

\* ---- weather cache (tools/cache/weather_cache.py) ----
VARIABLES
    cache_store,    \* self._cache: city_key -> WeatherCacheEntry
    ttl,            \* self._ttl, in seconds
    hits,           \* self._hits
    misses,         \* self._misses
    now,            \* the clock datetime.now() reads, in seconds
    ticks,          \* how often the clock has advanced
    stored_at,      \* history: per key, the time of the set that stored its entry
    last_set,       \* history: the latest operation, if it was a set
    last_get,       \* history: the latest get and what it returned
    gets,           \* history: the number of calls of get
    last_op,        \* history: the latest operation ("none" before the first)
    since_clear,    \* history: clear was called and set has not been since
    last_stats      \* the dict of the latest operation, if it was a get_stats

cache_vars == <<cache_store, ttl, hits, misses, now, ticks, stored_at, last_set, last_get,
                gets, last_op, since_clear, last_stats>>

\* ---- model rotation (util/llm_utils.py, server/agent.py) ----
VARIABLES
    env_llm_models,          \* the environment variable LLM_MODELS
    model_rotation_counter,  \* _model_rotation_counter
    chat_pc,                 \* per request task: "idle", "running" (awaiting agent.run),
                             \* "done" (returned its payload), "raised" (left by an exception)
    model_name,              \* per request task: model_name of chat
    selections,              \* history: the calls of get_next_llm_model, in order
    client_model,            \* per request task: the model the LLM client was built with
    last_response            \* the payload the latest finished chat returned

rotator_vars == <<env_llm_models, model_rotation_counter, chat_pc, model_name, selections,
                  client_model, last_response>>

\* ---- the tool lookup of create_agent (server/agent.py) ----
VARIABLES
    agent_tools,    \* tools of the latest create_agent, <<>> if it raised
    agent_exc       \* the exception that left the latest create_agent

agent_vars == <<agent_tools, agent_exc>>

\* ---- the text extraction of chat (server/agent.py) ----
VARIABLES
    result,         \* the result of agent.run
    response_text,  \* response_text of chat
    extract_pc      \* "start", "done"

extract_vars == <<result, response_text, extract_pc>>

\* ---- the tools read_file and get_weather (tools/handlers/tool_handlers.py) ----
VARIABLES
    filename,       \* the argument of read_file
    read_result,    \* what read_file answered
    read_pc,        \* "start", "done"
    api_key,        \* whether OPENWEATHER_API_KEY is set
    api_calls,      \* history: the number of requests sent to the weather API
    last_weather    \* history: the latest call of get_weather and its answer

file_vars == <<filename, read_result, read_pc>>
weather_vars == <<api_key, api_calls, last_weather>>
tools_vars == <<file_vars, weather_vars>>

vars == <<registry_vars, gateway_vars, cache_vars, rotator_vars, agent_vars, extract_vars,
          tools_vars>>

\* what an action of one component leaves alone
not_registry == <<gateway_vars, cache_vars, rotator_vars, agent_vars, extract_vars, tools_vars>>
not_gateway == <<registry_vars, cache_vars, rotator_vars, agent_vars, extract_vars, tools_vars>>
not_cache == <<registry_vars, gateway_vars, rotator_vars, agent_vars, extract_vars, tools_vars>>
not_rotator == <<registry_vars, gateway_vars, cache_vars, agent_vars, extract_vars, tools_vars>>
not_agent == <<registry_vars, gateway_vars, cache_vars, rotator_vars, extract_vars, tools_vars>>
not_chat == <<registry_vars, gateway_vars, cache_vars, extract_vars, tools_vars>>
not_extract == <<registry_vars, gateway_vars, cache_vars, rotator_vars, agent_vars, tools_vars>>
not_file == <<registry_vars, gateway_vars, cache_vars, rotator_vars, agent_vars, extract_vars,
              weather_vars>>
not_weather == <<registry_vars, gateway_vars, rotator_vars, agent_vars, extract_vars,
                 file_vars>>

(***************************************************************************)
(* Tool-adapter registry: server/agent.py                                  *)
(***************************************************************************)
Callers == 1..NumCallers

\* the adapters in the order the attempt creates them (agent.py 170-189)
ToolOrder == <<"calculator", "get_weather", "read_file", "get_cache_stats">>

ToolNames == {ToolOrder[i] : i \in 1..Len(ToolOrder)}

\* retry configuration of initialize_tool_adapters
max_retries == 5
base_retry_delay == 1

\* a key that is not in the dict
NoHandle == [by |-> 0, attempt |-> 0]

\* the adapter object one successful connector call returns
NewHandle(c, a) == [by |-> c, attempt |-> a + 1]

\* what StreamableHttpMcpToolAdapter.from_server_params can do: return an
\* adapter or raise (connection refused, timeout, malformed handshake)
ConnectorOutcomes == {TRUE, FALSE}

\* what it raises: the connection is refused, the connection or the
\* handshake times out, or the server does not list the tool of that name
\* (ValueError)
ConnectorErrors == {"ConnectionError", "TimeoutError", "ValueError"}

\* issubclass(e, cls) for these classes
IsSubclass(e, cls) == cls = e \/ cls = "Exception"

\* faulty variant of the handler: except (ConnectionError, TimeoutError)
HandlerCatchesConnectorOnly(e) ==
    \E cls \in {"ConnectionError", "TimeoutError"} : IsSubclass(e, cls)

\* except (ConnectionError, TimeoutError, ValueError, Exception) (agent.py 204)
HandlerCatches(e) ==
    \E cls \in {"ConnectionError", "TimeoutError", "ValueError", "Exception"} : IsSubclass(e, cls)

RegistryInit ==
    /\ tool_adapters_cache = [n \in ToolNames |-> NoHandle]
    /\ tool_adapters_initialized = FALSE
    /\ init_pc = [c \in Callers |-> "idle"]
    /\ attempt = [c \in Callers |-> 0]
    /\ retry_delay = [c \in Callers |-> 0]
    /\ tool_idx = [c \in Callers |-> 0]
    /\ init_outcome = [c \in Callers |-> "none"]
    /\ init_exc = [c \in Callers |-> "none"]
    /\ batches = 0

\* initialize_tool_adapters up to its first await: the flag test, then the
\* first connector call of attempt 0
InitEnter(c) ==
    /\ init_pc[c] = "idle"
    /\ IF tool_adapters_initialized
       THEN /\ init_pc' = [init_pc EXCEPT ![c] = "returned"]
            /\ init_outcome' = [init_outcome EXCEPT ![c] = "skipped"]
            /\ UNCHANGED <<attempt, retry_delay, tool_idx>>
       ELSE /\ init_pc' = [init_pc EXCEPT ![c] = "connecting"]
            /\ attempt' = [attempt EXCEPT ![c] = 0]
            /\ retry_delay' = [retry_delay EXCEPT ![c] = base_retry_delay]
            /\ tool_idx' = [tool_idx EXCEPT ![c] = 1]
            /\ UNCHANGED init_outcome
    /\ UNCHANGED <<tool_adapters_cache, tool_adapters_initialized, init_exc, batches>>
    /\ UNCHANGED not_registry

\* the awaited connector call completes: the handle is stored under its name
\* at once (agent.py 170-189); after the fourth the flag is set (191); an
\* exception goes to the handler at 204-234
ConnectorReply(c) ==
    /\ init_pc[c] = "connecting"
    /\ \E ok \in ConnectorOutcomes :
        IF ok
        THEN /\ tool_adapters_cache' =
                  [tool_adapters_cache EXCEPT ![ToolOrder[tool_idx[c]]] = NewHandle(c, attempt[c])]
             /\ IF tool_idx[c] < Len(ToolOrder)
                THEN /\ tool_idx' = [tool_idx EXCEPT ![c] = @ + 1]
                     /\ UNCHANGED <<tool_adapters_initialized, init_pc, init_outcome, batches>>
                ELSE /\ tool_adapters_initialized' = TRUE
                     /\ init_pc' = [init_pc EXCEPT ![c] = "returned"]
                     /\ init_outcome' = [init_outcome EXCEPT ![c] = "success"]
                     /\ batches' = batches + 1
                     /\ UNCHANGED tool_idx
             /\ UNCHANGED <<attempt, retry_delay, init_exc>>
        ELSE /\ \E e \in ConnectorErrors :
                  /\ init_exc' = [init_exc EXCEPT ![c] = e]
                  /\ IF HandlerCatches(e) /\ attempt[c] < max_retries - 1
                     THEN /\ init_pc' = [init_pc EXCEPT ![c] = "sleeping"]
                          /\ UNCHANGED init_outcome
                     ELSE /\ init_pc' = [init_pc EXCEPT ![c] = "raised"]
                          /\ init_outcome' = [init_outcome EXCEPT ![c] = "failure"]
             /\ UNCHANGED <<tool_adapters_cache, tool_adapters_initialized, attempt,
                            retry_delay, tool_idx, batches>>
    /\ UNCHANGED not_registry

\* faulty variant: the delay is not doubled
NextRetryDelayFixed(d) == d

\* retry_delay *= 2 (agent.py 224)
NextRetryDelay(d) == d * 2

\* asyncio.sleep(retry_delay) is over: the delay doubles, the handler ends
\* (and with it the name e), and the next iteration of the loop issues its
\* first connector call (agent.py 223-224, 158-171)
BackoffWake(c) ==
    /\ init_pc[c] = "sleeping"
    /\ retry_delay' = [retry_delay EXCEPT ![c] = NextRetryDelay(@)]
    /\ attempt' = [attempt EXCEPT ![c] = @ + 1]
    /\ tool_idx' = [tool_idx EXCEPT ![c] = 1]
    /\ init_pc' = [init_pc EXCEPT ![c] = "connecting"]
    /\ init_exc' = [init_exc EXCEPT ![c] = "none"]
    /\ UNCHANGED <<tool_adapters_cache, tool_adapters_initialized, init_outcome, batches>>
    /\ UNCHANGED not_registry

RegistryNext == \E c \in Callers : InitEnter(c) \/ ConnectorReply(c) \/ BackoffWake(c)

\* ---- lifespan: the startup of the server (agent.py 236-258) ----
\* the caller of initialize_tool_adapters that is the lifespan
Lifespan == 1

\* the startup: lifespan awaits initialize_tool_adapters before it yields
LifespanNext == InitEnter(Lifespan) \/ ConnectorReply(Lifespan) \/ BackoffWake(Lifespan)

\* faulty variant: the initialization is started but not awaited
ServingUnawaited == init_pc[Lifespan] # "idle"

\* lifespan has yielded: the awaited initialization returned, and the
\* server handles requests from then on; when it raised, the startup is
\* aborted and no request is handled
Serving == init_pc[Lifespan] = "returned"

\* the registry when the lifespan's first attempt went through
RegistryServed ==
    /\ tool_adapters_cache = [n \in ToolNames |-> NewHandle(Lifespan, 0)]
    /\ tool_adapters_initialized = TRUE
    /\ init_pc = [c \in Callers |-> IF c = Lifespan THEN "returned" ELSE "idle"]
    /\ attempt = [c \in Callers |-> 0]
    /\ retry_delay = [c \in Callers |-> IF c = Lifespan THEN base_retry_delay ELSE 0]
    /\ tool_idx = [c \in Callers |-> IF c = Lifespan THEN Len(ToolOrder) ELSE 0]
    /\ init_outcome = [c \in Callers |-> IF c = Lifespan THEN "success" ELSE "none"]
    /\ init_exc = [c \in Callers |-> "none"]
    /\ batches = 1

\* ---- create_agent: the lookup of the cached adapters (agent.py 290-295) ----
\* the order in which create_agent indexes the dict
LookupOrder == <<"calculator", "read_file", "get_weather", "get_cache_stats">>

NoException == [type |-> "none", key |-> ""]

\* the keys of the dict
HasKey(cache, name) == cache[name] # NoHandle

\* the positions of LookupOrder whose key is missing
MissingAt(cache) == {i \in 1..Len(LookupOrder) : ~HasKey(cache, LookupOrder[i])}

\* the smallest element of a non-empty set of numbers
Least(S) == CHOOSE i \in S : \A j \in S : i <= j

\* faulty variant: the lookup is cache.get(name) and raises nothing
LookupToolsLenient(cache) ==
    [exc |-> NoException, tools |-> [i \in 1..Len(LookupOrder) |-> cache[LookupOrder[i]]]]

\* tools = [_tool_adapters_cache["calculator"], ...]: indexing a missing
\* key raises KeyError(key), at the first such key
LookupTools(cache) ==
    IF MissingAt(cache) = {}
    THEN [exc |-> NoException, tools |-> [i \in 1..Len(LookupOrder) |-> cache[LookupOrder[i]]]]
    ELSE [exc |-> [type |-> "KeyError", key |-> LookupOrder[Least(MissingAt(cache))]],
          tools |-> <<>>]

AgentInit ==
    /\ agent_tools = <<>>
    /\ agent_exc = NoException

\* create_agent (agent.py 275-362): it has no await, and nothing after the
\* lookup touches the registry
CreateAgent ==
    /\ agent_tools' = LookupTools(tool_adapters_cache).tools
    /\ agent_exc' = LookupTools(tool_adapters_cache).exc
    /\ UNCHANGED not_agent

AgentNext == RegistryNext \/ CreateAgent

(***************************************************************************)
(* Request middleware of the tools server:                                 *)
(* tools/middleware/tools_middleware.py, ToolsRequestMiddleware            *)
(***************************************************************************)
\* longest request stream
MaxStream == 3

\* the value None
None == "None"

\* Request bodies, by what body.decode("utf-8") and json.loads make of them:
\*   enc     "empty" (b""), "bad_utf8", "bad_json" or "json"
\*   top     the type of the decoded JSON value
\*   mtype/method        the value under "method" ("absent": no such key)
\*   ptype               the type of the value under "params"
\*   ntype/name          the value under params["name"]
\*   atype               the type of the value under params["arguments"]
MkBody(enc, top, mtype, method, ptype, ntype, name, atype) ==
    [enc |-> enc, top |-> top, mtype |-> mtype, method |-> method, ptype |-> ptype,
     ntype |-> ntype, name |-> name, atype |-> atype]

EmptyBody == MkBody("empty", "none", "absent", "", "absent", "absent", "", "absent")

\* {"method": m} with a string method and no params
MethodBody(m) == MkBody("json", "obj", "str", m, "absent", "absent", "", "absent")

\* {"method": "tools/call", "params": ...}
CallBody(ptype, ntype, name, atype) ==
    MkBody("json", "obj", "str", "tools/call", ptype, ntype, name, atype)

Bodies ==
    { EmptyBody,
      MkBody("bad_utf8", "none", "absent", "", "absent", "absent", "", "absent"),
      MkBody("bad_json", "none", "absent", "", "absent", "absent", "", "absent"),
      MkBody("json", "list", "absent", "", "absent", "absent", "", "absent"),
      MkBody("json", "str", "absent", "", "absent", "absent", "", "absent"),
      MkBody("json", "null", "absent", "", "absent", "absent", "", "absent"),
      MkBody("json", "obj", "absent", "", "absent", "absent", "", "absent"),
      MkBody("json", "obj", "num", "", "absent", "absent", "", "absent"),
      MkBody("json", "obj", "null", "", "obj", "str", "calculator", "obj"),
      MethodBody("tools/list"), MethodBody("initialize"), MethodBody("ping"),
      MethodBody("resources/read"), MethodBody("tools/call"),
      CallBody("obj", "str", "calculator", "obj"),
      CallBody("obj", "str", "get_weather", "list"),
      CallBody("obj", "absent", "", "absent"),
      CallBody("obj", "num", "", "str"),
      CallBody("str", "absent", "", "absent"),
      CallBody("null", "absent", "", "absent"),
      CallBody("list", "absent", "", "absent") }

\* ASGI messages
HttpRequest(b, more) == [type |-> "http.request", body |-> b, more_body |-> more]
HttpDisconnect == [type |-> "http.disconnect", body |-> EmptyBody, more_body |-> FALSE]
LifespanMessage == [type |-> "lifespan.startup", body |-> EmptyBody, more_body |-> FALSE]
NoMessage == [type |-> None, body |-> EmptyBody, more_body |-> FALSE]

FirstMessages == {HttpRequest(b, m) : b \in Bodies, m \in BOOLEAN} \cup {HttpDisconnect}
LaterMessages == {HttpRequest(MethodBody("ping"), FALSE), HttpRequest(EmptyBody, FALSE),
                  HttpDisconnect}

\* the streams of an HTTP request: a first message and up to MaxStream - 1
\* further ones
HttpStreams ==
    UNION { { <<m>> \o t : m \in FirstMessages, t \in [1..n -> LaterMessages] } :
            n \in 0..(MaxStream - 1) }

Paths == {"/mcp", "/health", "/", "/sse", "/tools/call"}

\* ---- the inspection of the first chunk (tools_middleware.py 70-163) ----

\* mcp_message = json.loads(body.decode("utf-8")) and everything up to line
\* 156: the exception this raises, "none" if it runs through
ParseException(b) ==
    IF b.enc = "bad_utf8" THEN "UnicodeDecodeError"
    ELSE IF b.enc = "bad_json" THEN "JSONDecodeError"
    \* mcp_message.get on a list, a str, a number or None
    ELSE IF b.top # "obj" THEN "AttributeError"
    ELSE IF b.mtype = "str" /\ b.method \in {"tools/list", "initialize", "ping"} THEN "none"
    ELSE IF b.mtype = "str" /\ b.method = "tools/call"
         \* params.get on a value that is not a dict
         THEN IF b.ptype \in {"absent", "obj"} THEN "none" ELSE "AttributeError"
    \* mcp_method.replace on a value that is not a str
    ELSE IF b.mtype \in {"str", "absent"} THEN "none" ELSE "AttributeError"

\* the except clause at line 157
InnerCaught == {"JSONDecodeError", "UnicodeDecodeError", "KeyError"}

\* the except clause at line 164, with the subclasses of ValueError among
\* the exceptions above
OuterCaught == {"RuntimeError", "ValueError", "OSError", "JSONDecodeError",
                "UnicodeDecodeError"}

\* tool_name after the inspection (line 87)
ParsedToolName(b) ==
    IF b.mtype = "str" /\ b.method = "tools/call"
    THEN IF b.ptype = "obj" /\ b.ntype # "absent"
         THEN [type |-> b.ntype, value |-> b.name]
         ELSE [type |-> "str", value |-> "unknown"]
    ELSE [type |-> None, value |-> ""]

\* mcp_method.replace('/', '_') (line 153), on the methods of Bodies
ReplaceSlash(m) ==
    CASE m = "resources/read" -> "resources_read"
      [] m = "tools/call" -> "tools_call"
      [] m = "tools/list" -> "tools_list"
      [] OTHER -> m

\* transaction_name after the inspection (lines 82-154)
ParsedTransactionName(b) ==
    LET m == IF b.mtype = "absent" THEN "" ELSE b.method IN
    IF m = "tools/list" THEN [kind |-> "MCP/Tools/ListTools", arg |-> ParsedToolName(b)]
    ELSE IF m = "tools/call" THEN [kind |-> "MCP/Tools/Call/", arg |-> ParsedToolName(b)]
    ELSE IF m = "initialize" THEN [kind |-> "MCP/Tools/Initialize", arg |-> ParsedToolName(b)]
    ELSE IF m = "ping" THEN [kind |-> "MCP/Tools/Ping", arg |-> ParsedToolName(b)]
    ELSE [kind |-> "MCP/Tools/", arg |-> [type |-> "method", value |-> ReplaceSlash(m)]]

NoName == [kind |-> None, arg |-> [type |-> None, value |-> ""]]

\* path.replace("/", "_").strip("_") or "root" (line 185), on Paths
CleanPath(path) ==
    CASE path = "/mcp" -> "mcp"
      [] path = "/sse" -> "sse"
      [] path = "/health" -> "health"
      [] path = "/tools/call" -> "tools_call"
      [] path = "/" -> "root"

\* lines 180-186: the name when the inspection gave none; the method "" gives
\* "MCP/Tools/", which is not empty
PathTransactionName(path) ==
    IF path \in {"/health", "/"}
    THEN [kind |-> "MCP/Tools/Health", arg |-> [type |-> None, value |-> ""]]
    ELSE [kind |-> "MCP/Tools/", arg |-> [type |-> "path", value |-> CleanPath(path)]]

\* the chunk is inspected when it has a body and the path is /mcp (line 71)
Inspected(msg, path) ==
    msg.type = "http.request" /\ msg.body.enc # "empty" /\ path = "/mcp"

\* ---- the outbound path (tools_middleware.py 214-247) ----
\* most response messages one application call sends
MaxSends == 2

\* message.get("status") of a message without a status
NoStatus == 0

\* the messages of a response; a start message may lack its status
Statuses == {200, 500}
ResponseMessages ==
    {[type |-> "http.response.start", status |-> st, more_body |-> FALSE] :
        st \in Statuses \cup {NoStatus}}
    \cup {[type |-> "http.response.body", status |-> NoStatus, more_body |-> FALSE]}
NoResponse == [type |-> None, status |-> NoStatus, more_body |-> FALSE]

\* the entries of out_log; the value of the duration is not modelled
Attached(key, value) ==
    [event |-> "attribute", key |-> key, value |-> value, message |-> NoResponse]
Sent(message) == [event |-> "send", key |-> None, value |-> 0, message |-> message]

\* faulty variant: the status is attached after the message has gone out
SendWrapperLate(log, message) ==
    IF message.type = "http.response.start" /\ message.status # NoStatus
    THEN log \o <<Sent(message), Attached("http.status_code", message.status)>>
    ELSE Append(log, Sent(message))

\* send_wrapper (lines 217-225)
SendWrapper(log, message) ==
    IF message.type = "http.response.start" /\ message.status # NoStatus
    THEN log \o <<Attached("http.status_code", message.status), Sent(message)>>
    ELSE Append(log, Sent(message))

\* the finally clause (lines 230-233)
Finally(log) == Append(log, Attached("http.duration_ms", 0))

\* the number of messages given to send so far
SendCount(log) == Cardinality({i \in 1..Len(log) : log[i].event = "send"})

\* faulty variant: only lifespan requests are passed through
PassThroughLifespanOnly(sc) == sc.type = "lifespan"

\* scope["type"] != "http" (line 48)
PassThrough(sc) == sc.type # "http"

\* faulty variant: the consumed chunk is not kept for the replay
CacheFirstMessageDropped(msg) == <<>>

\* body_cache after line 68
CacheFirstMessage(msg) == IF msg.type = "http.request" THEN <<msg>> ELSE <<>>

GatewayInit ==
    /\ \E t \in {"http", "lifespan", "websocket"}, p \in Paths :
          scope = [type |-> t, path |-> p]
    /\ stream \in (IF scope.type = "http" THEN HttpStreams
                   ELSE {<<LifespanMessage>>, <<LifespanMessage, LifespanMessage>>})
    /\ recv_count = 0
    /\ gw_pc = "start"
    /\ gw_exc = "none"
    /\ first_message = NoMessage
    /\ body_cache = <<>>
    /\ body_index = 0
    /\ transaction_name = NoName
    /\ tool_name = [type |-> None, value |-> ""]
    /\ app_receive = None
    /\ delivered = <<>>
    /\ app_send = None
    /\ app_sent = <<>>
    /\ out_log = <<>>

\* ToolsRequestMiddleware.__call__ up to its call of self.app (lines 48-229)
GwCall ==
    /\ gw_pc = "start"
    /\ IF PassThrough(scope)
       THEN /\ gw_pc' = "app"
            /\ app_receive' = "receive"
            /\ app_send' = "send"
            /\ UNCHANGED <<recv_count, gw_exc, first_message, body_cache, transaction_name,
                           tool_name>>
       ELSE LET msg == stream[1]
                exc == IF Inspected(msg, scope.path) THEN ParseException(msg.body) ELSE "none"
            IN
            /\ recv_count' = 1
            /\ first_message' = msg
            /\ body_cache' = CacheFirstMessage(msg)
            /\ IF exc \notin InnerCaught \cup OuterCaught \cup {"none"}
               THEN \* the exception leaves __call__: self.app is never called
                    /\ gw_pc' = "failed"
                    /\ gw_exc' = exc
                    /\ UNCHANGED <<transaction_name, tool_name, app_receive, app_send>>
               ELSE /\ gw_pc' = "app"
                    /\ gw_exc' = "none"
                    /\ app_receive' = "receive_wrapper"
                    /\ app_send' = "send_wrapper"
                    /\ tool_name' = IF Inspected(msg, scope.path) /\ exc = "none"
                                    THEN ParsedToolName(msg.body)
                                    ELSE [type |-> None, value |-> ""]
                    /\ transaction_name' =
                          IF Inspected(msg, scope.path) /\ exc = "none"
                          THEN ParsedTransactionName(msg.body)
                          ELSE PathTransactionName(scope.path)
    /\ UNCHANGED <<scope, stream, body_index, delivered, app_sent, out_log>>
    /\ UNCHANGED not_gateway

\* the downstream application awaits its receive callable: receive_wrapper
\* (lines 171-177), or the server's receive for a request passed through
AppReceive ==
    /\ gw_pc = "app"
    /\ IF app_receive = "receive_wrapper" /\ body_index < Len(body_cache)
       THEN /\ delivered' = Append(delivered, body_cache[body_index + 1])
            /\ body_index' = body_index + 1
            /\ UNCHANGED recv_count
       ELSE /\ recv_count < Len(stream)
            /\ delivered' = Append(delivered, stream[recv_count + 1])
            /\ recv_count' = recv_count + 1
            /\ UNCHANGED body_index
    /\ UNCHANGED <<scope, stream, gw_pc, gw_exc, first_message, body_cache,
                   transaction_name, tool_name, app_receive, app_send, app_sent, out_log>>
    /\ UNCHANGED not_gateway

\* the downstream application awaits its send callable: send_wrapper
\* (lines 217-225), or the server's send for a request passed through
AppSend ==
    /\ gw_pc = "app"
    /\ SendCount(out_log) < MaxSends
    /\ \E message \in ResponseMessages :
          /\ app_sent' = Append(app_sent, message)
          /\ out_log' = IF app_send = "send_wrapper" THEN SendWrapper(out_log, message)
                        ELSE Append(out_log, Sent(message))
    /\ UNCHANGED <<scope, stream, recv_count, gw_pc, gw_exc, first_message, body_cache,
                   body_index, transaction_name, tool_name, app_receive, delivered, app_send>>
    /\ UNCHANGED not_gateway

\* self.app returns; for an HTTP request the finally clause runs (lines 230-247)
AppReturn ==
    /\ gw_pc = "app"
    /\ gw_pc' = "done"
    /\ out_log' = IF app_send = "send_wrapper" THEN Finally(out_log) ELSE out_log
    /\ UNCHANGED <<scope, stream, recv_count, gw_exc, first_message, body_cache,
                   body_index, transaction_name, tool_name, app_receive, delivered, app_send,
                   app_sent>>
    /\ UNCHANGED not_gateway

GatewayNext == GwCall \/ AppReceive \/ AppSend \/ AppReturn

(***************************************************************************)
(* Weather cache: tools/cache/weather_cache.py, WeatherCache               *)
(***************************************************************************)
\* advances of the clock in one run
MaxTicks == 2
\* calls of get in one run
MaxGets == 3

\* timedelta(minutes=ttl_minutes) in seconds
SecondsPerMinute == 60

\* values of WEATHER_CACHE_TTL_MINUTES
TtlMinutes == {0, 10}

\* how far the clock advances between two operations: a second less than
\* ten minutes, or ten minutes
TickSteps == {10 * SecondsPerMinute - 1, 10 * SecondsPerMinute}

Cities == {"London", "LONDON", "Paris"}
WeatherData == {"sunny", "rain"}

\* str.lower() on the cities
Lower(city) ==
    CASE city \in {"London", "LONDON", "london"} -> "london"
      [] city \in {"Paris", "paris"} -> "paris"

CityKeys == {Lower(c) : c \in Cities}

NoEntry == [data |-> None, timestamp |-> -1, city |-> None]

\* WeatherCacheEntry(data=data, timestamp=datetime.now(), city=city)
WeatherCacheEntry(data, timestamp, city) ==
    [data |-> data, timestamp |-> timestamp, city |-> city]

NoSet == [valid |-> FALSE, key |-> None, data |-> None, at |-> -1, recased |-> FALSE]
NoGet == [valid |-> FALSE, key |-> None, result |-> None, found |-> FALSE, age |-> -1,
          after_set |-> FALSE, set_data |-> None, elapsed |-> -1, left |-> FALSE,
          after_clear |-> FALSE]
NoStats == [valid |-> FALSE, hits |-> 0, misses |-> 0, size |-> 0, hit_rate_percent |-> 0]

\* faulty variant: an entry of exactly the TTL's age still counts as fresh
IsFreshInclusive(age, t) == age <= t

\* age < self._ttl (line 55)
IsFresh(age, t) == age < t

\* faulty variant: the expired entry is left in the dict
DeleteEntrySkipped(store, key) == store

\* del self._cache[city_key] (line 88)
DeleteEntry(store, key) == [store EXCEPT ![key] = NoEntry]

\* faulty variant: an existing entry is kept (setdefault)
StoreEntryKeepOld(store, key, data, city) ==
    IF store[key] # NoEntry THEN store
    ELSE [store EXCEPT ![key] = WeatherCacheEntry(data, now, city)]

\* self._cache[city_key] = WeatherCacheEntry(...) (lines 113-115)
StoreEntry(store, key, data, city) ==
    [store EXCEPT ![key] = WeatherCacheEntry(data, now, city)]

\* faulty variant: the rate is cut off after two decimals
HitRateTruncated(h, m) ==
    IF h + m > 0 THEN (h * 10000) \div (h + m) ELSE 0

\* get_stats (lines 137-145); the rate in hundredths of a percent, rounded
\* half to even as round(hit_rate, 2) does
HitRateHundredths(h, m) ==
    IF h + m > 0
    THEN LET q == (h * 10000) \div (h + m)
             r == (h * 10000) % (h + m)
         IN IF 2 * r > h + m \/ (2 * r = h + m /\ q % 2 = 1) THEN q + 1 ELSE q
    ELSE 0

\* faulty variant: the size is the number of entries that are still fresh
CacheSizeFresh(store) ==
    Cardinality({k \in CityKeys : store[k] # NoEntry /\ IsFresh(now - store[k].timestamp, ttl)})

\* len(self._cache)
CacheSize(store) == Cardinality({k \in CityKeys : store[k] # NoEntry})

\* the dict get_stats returns (lines 140-145); hit_rate_percent in
\* hundredths of a percent
StatsDict(h, m, store) ==
    [valid |-> TRUE, hits |-> h, misses |-> m, size |-> CacheSize(store),
     hit_rate_percent |-> HitRateHundredths(h, m)]

\* the history of a cache that has not been used
CacheHistoryInit ==
    /\ stored_at = [k \in CityKeys |-> -1]
    /\ last_set = NoSet
    /\ last_get = NoGet
    /\ gets = 0
    /\ last_op = "none"
    /\ since_clear = FALSE
    /\ last_stats = NoStats

\* faulty variant: a get that finds an expired entry counts nothing
CountMissAbsentOnly(m, found) == IF found THEN m ELSE m + 1

\* self._misses += 1 (line 90), on the expired and on the absent path
CountMiss(m, found) == m + 1

CacheInit ==
    /\ cache_store = [k \in CityKeys |-> NoEntry]
    /\ ttl \in {m * SecondsPerMinute : m \in TtlMinutes}
    /\ hits = 0
    /\ misses = 0
    /\ now = 0
    /\ ticks = 0
    /\ CacheHistoryInit

\* WeatherCache.get (lines 49-101)
CacheGet(city) ==
    LET city_key == Lower(city)
        entry == cache_store[city_key]
        found == entry # NoEntry
        age == now - entry.timestamp
        hit == found /\ IsFresh(age, ttl)
    IN
    /\ gets < MaxGets
    /\ hits' = IF hit THEN hits + 1 ELSE hits
    /\ misses' = IF hit THEN misses ELSE CountMiss(misses, found)
    /\ cache_store' = IF found /\ ~hit THEN DeleteEntry(cache_store, city_key)
                      ELSE cache_store
    /\ stored_at' = [k \in CityKeys |-> IF cache_store'[k] = NoEntry THEN -1 ELSE stored_at[k]]
    /\ last_get' = [valid |-> TRUE, key |-> city_key,
                    result |-> IF hit THEN entry.data ELSE None,
                    found |-> found,
                    age |-> IF stored_at[city_key] >= 0 THEN now - stored_at[city_key] ELSE -1,
                    after_set |-> last_set.valid /\ last_set.key = city_key,
                    set_data |-> IF last_set.valid /\ last_set.key = city_key
                                 THEN last_set.data ELSE None,
                    elapsed |-> IF last_set.valid /\ last_set.key = city_key
                                THEN now - last_set.at ELSE -1,
                    left |-> cache_store'[city_key] # NoEntry,
                    after_clear |-> since_clear]
    /\ last_set' = NoSet
    /\ gets' = gets + 1
    /\ last_op' = "get"
    /\ last_stats' = NoStats
    /\ UNCHANGED <<ttl, now, ticks, since_clear>>
    /\ UNCHANGED not_cache

\* WeatherCache.set (lines 112-123)
CacheSet(city, data) ==
    /\ cache_store' = StoreEntry(cache_store, Lower(city), data, city)
    /\ stored_at' = [stored_at EXCEPT ![Lower(city)] = now]
    /\ last_set' = [valid |-> TRUE, key |-> Lower(city), data |-> data, at |-> now,
                    recased |-> cache_store[Lower(city)].city \notin {None, city}]
    /\ last_op' = "set"
    /\ since_clear' = FALSE
    /\ last_stats' = NoStats
    /\ UNCHANGED <<ttl, hits, misses, now, ticks, last_get, gets>>
    /\ UNCHANGED not_cache

\* faulty variant: clear starts the cache over, counters included
ClearedCounterReset(n) == 0

\* clear leaves self._hits and self._misses as they are
ClearedCounter(n) == n

\* WeatherCache.clear (lines 125-128)
CacheClear ==
    /\ cache_store' = [k \in CityKeys |-> NoEntry]
    /\ hits' = ClearedCounter(hits)
    /\ misses' = ClearedCounter(misses)
    /\ stored_at' = [k \in CityKeys |-> -1]
    /\ last_set' = NoSet
    /\ last_op' = "clear"
    /\ since_clear' = TRUE
    /\ last_stats' = NoStats
    /\ UNCHANGED <<ttl, now, ticks, last_get, gets>>
    /\ UNCHANGED not_cache

\* WeatherCache.get_stats (lines 130-145)
CacheGetStats ==
    /\ last_stats' = StatsDict(hits, misses, cache_store)
    /\ last_op' = "get_stats"
    /\ UNCHANGED <<cache_store, ttl, hits, misses, now, ticks, stored_at, last_set, last_get,
                   gets, since_clear>>
    /\ UNCHANGED not_cache

\* time passes between two operations
Tick ==
    /\ ticks < MaxTicks
    /\ \E d \in TickSteps : now' = now + d
    /\ ticks' = ticks + 1
    /\ UNCHANGED <<cache_store, ttl, hits, misses, stored_at, last_set, last_get,
                   gets, last_op, since_clear, last_stats>>
    /\ UNCHANGED not_cache

CacheNext ==
    \/ \E city \in Cities : CacheGet(city)
    \/ \E city \in Cities, data \in WeatherData : CacheSet(city, data)
    \/ CacheClear
    \/ CacheGetStats
    \/ Tick

(***************************************************************************)
(* Model rotation: util/llm_utils.py, and its caller chat in               *)
(* server/agent.py                                                         *)
(***************************************************************************)
\* concurrent /chat requests
NumTasks == 4

Tasks == 1..NumTasks

DefaultModel == "gpt-4o-mini"

\* A value of LLM_MODELS is the sequence of its comma-separated fields; a
\* field is a model name ("" for none) with or without blanks around it.
Field(text, pad) == [text |-> text, pad |-> pad]

\* os.getenv("LLM_MODELS", ""): unset and "" are both the one empty field
EnvUnset == <<Field("", FALSE)>>

EnvValues ==
    { EnvUnset,
      <<Field("", TRUE)>>,                                      \* " "
      <<Field("", FALSE), Field("", FALSE)>>,                   \* ","
      <<Field("gpt-4o", FALSE)>>,
      <<Field("gpt-4o", FALSE), Field("gpt-4o-mini", TRUE)>>,
      <<Field("gpt-4o", TRUE), Field("", FALSE), Field("o3-mini", FALSE)>>,
      <<Field("gpt-4o", FALSE), Field("gpt-4o-mini", FALSE), Field("o3-mini", TRUE)>>,
      <<Field("gpt-4o", FALSE), Field("gpt-4o", TRUE), Field("o3-mini", FALSE)>> }

\* model.strip()
Strip(f) == f.text

\* [model.strip() for model in fields if model.strip()]
RECURSIVE StripNonEmpty(_)
StripNonEmpty(fields) ==
    IF fields = <<>> THEN <<>>
    ELSE IF Strip(Head(fields)) # ""
         THEN <<Strip(Head(fields))>> \o StripNonEmpty(Tail(fields))
         ELSE StripNonEmpty(Tail(fields))

\* get_llm_models (lines 33-40); LLM_MODEL is taken as unset
get_llm_models(env) ==
    IF env # EnvUnset THEN StripNonEmpty(env) ELSE <<DefaultModel>>

\* faulty variant: the index is taken without the modulo's wrap to the list start
SelectModelNoWrap(models, counter) ==
    models[IF counter < Len(models) THEN counter + 1 ELSE Len(models)]

\* models[_model_rotation_counter % len(models)] (line 70)
SelectModel(models, counter) == models[(counter % Len(models)) + 1]

\* faulty variant: the increment is lost
NextCounterLost(counter) == counter

\* faulty variant: the counter advances by two
NextCounterSkip(counter) == counter + 2

\* _model_rotation_counter += 1 (line 71)
NextCounter(counter) == counter + 1

\* ---- the text extraction of chat (agent.py 424-443) ----
\* most content blocks of a message
MaxBlocks == 3

\* a text is the sequence of its characters
Texts == {<<>>, <<"a">>, <<"b">>}

\* the content blocks: a dict with a type (and maybe a text), a plain
\* string, or any other object
Block(shape, type, has_text, text) ==
    [shape |-> shape, type |-> type, has_text |-> has_text, text |-> text]

Blocks ==
    { Block("dict", "text", TRUE, <<"a">>),
      Block("dict", "text", TRUE, <<"b">>),
      Block("dict", "text", FALSE, <<>>),
      Block("dict", "image", TRUE, <<"a">>),
      Block("str", None, TRUE, <<"a">>),
      Block("other", None, FALSE, <<>>) }

BlockLists == UNION {[1..n -> Blocks] : n \in 0..MaxBlocks}

\* the content of the last message
Content(kind, text, blocks) == [kind |-> kind, text |-> text, blocks |-> blocks]

Contents ==
    {Content("none", <<>>, <<>>), Content("other", <<>>, <<>>)}
    \cup {Content("str", t, <<>>) : t \in Texts}
    \cup {Content("list", <<>>, bs) : bs \in BlockLists}

\* a result of agent.run: with or without messages
Result(has_messages, content) == [has_messages |-> has_messages, content |-> content]
NoResult == Result(FALSE, Content("none", <<>>, <<>>))
Results == {NoResult} \cup {Result(TRUE, c) : c \in Contents}

\* str(block), as one token
BlockRepr(b) ==
    CASE b.shape = "str" -> "'a'"
      [] b.shape = "other" -> "<object>"
      [] b.shape = "dict" /\ b.type = "image" -> "{'type': 'image', 'text': 'a'}"
      [] b.shape = "dict" /\ ~b.has_text -> "{'type': 'text'}"
      [] b.text = <<"a">> -> "{'type': 'text', 'text': 'a'}"
      [] OTHER -> "{'type': 'text', 'text': 'b'}"

\* str(content) of a content that is not a string
Repr(content) ==
    IF content.kind = "list"
    THEN <<"[">> \o [i \in 1..Len(content.blocks) |-> BlockRepr(content.blocks[i])] \o <<"]">>
    ELSE <<"<object>">>

\* faulty variant: only the dict blocks of type text give a part
TextPartsDictOnly(blocks) ==
    LET IsText(b) == b.shape = "dict" /\ b.type = "text"
        picked == SelectSeq(blocks, IsText)
    IN [i \in 1..Len(picked) |-> picked[i].text]

\* the loop over the blocks (lines 434-440): text_parts
TextParts(blocks) ==
    LET Gives(b) == (b.shape = "dict" /\ b.type = "text") \/ b.shape = "str"
        picked == SelectSeq(blocks, Gives)
    IN [i \in 1..Len(picked) |-> IF picked[i].has_text THEN picked[i].text ELSE <<>>]

\* "".join(parts)
RECURSIVE Join(_)
Join(parts) == IF parts = <<>> THEN <<>> ELSE Head(parts) \o Join(Tail(parts))

\* response_text (lines 424-443)
ExtractText(res) ==
    IF ~res.has_messages THEN <<>>
    ELSE CASE res.content.kind = "none" -> <<>>
           [] res.content.kind = "str" -> res.content.text
           [] res.content.kind = "list" ->
                IF TextParts(res.content.blocks) # <<>>
                THEN Join(TextParts(res.content.blocks))
                ELSE Repr(res.content)
           [] OTHER -> Repr(res.content)

ExtractInit ==
    /\ result \in Results
    /\ response_text = <<>>
    /\ extract_pc = "start"

ExtractIdle ==
    /\ result = NoResult
    /\ response_text = <<>>
    /\ extract_pc = "start"

\* lines 424-443 applied to the result
Extract ==
    /\ extract_pc = "start"
    /\ response_text' = ExtractText(result)
    /\ extract_pc' = "done"
    /\ UNCHANGED result
    /\ UNCHANGED not_extract

ExtractNext == Extract

\* ---- chat (agent.py 371-465) ----
\* what awaiting agent.run can do: return a result, or raise (the LLM call
\* or a tool call failed)
RunOutcome(raised, res) == [raised |-> raised, result |-> res]

RunOutcomes ==
    { RunOutcome(TRUE, NoResult),
      RunOutcome(FALSE, Result(TRUE, Content("str", <<"a">>, <<>>))),
      RunOutcome(FALSE, Result(TRUE, Content("list", <<>>,
                            <<Block("dict", "text", TRUE, <<"a">>),
                              Block("dict", "image", TRUE, <<"a">>),
                              Block("dict", "text", TRUE, <<"b">>)>>))) }

\* no chat has returned yet
NoPayload == [task |-> 0, model |-> None, response |-> <<>>]

\* the payload of chat (lines 458-465), without its identifiers and its duration
Payload(t, model, text) == [task |-> t, model |-> model, response |-> text]

RotatorInit ==
    /\ env_llm_models \in EnvValues
    /\ model_rotation_counter = 0
    /\ chat_pc = [t \in Tasks |-> "idle"]
    /\ model_name = [t \in Tasks |-> None]
    /\ selections = <<>>
    /\ client_model = [t \in Tasks |-> None]
    /\ last_response = NoPayload

\* faulty variant: the payload names the model chosen last by any request
ResponseModelLatest(t) == selections[Len(selections)].model

\* "model": model_name (line 463)
ResponseModel(t) == model_name[t]

\* chat up to its await of agent.run (agent.py 383-409); the server calls
\* the handler only once the lifespan has yielded. get_next_llm_model
\* (llm_utils.py 63-73) and create_agent (agent.py 275-362) have no await
\* in them; create_agent looks the adapters up and builds the LLM client
\* with model_name (lines 307, 339)
ChatStart(t) ==
    LET models == get_llm_models(env_llm_models)
        lookup == LookupTools(tool_adapters_cache) IN
    /\ Serving
    /\ chat_pc[t] = "idle"
    /\ agent_tools' = lookup.tools
    /\ agent_exc' = lookup.exc
    /\ chat_pc' = [chat_pc EXCEPT ![t] = IF lookup.exc = NoException THEN "running"
                                        ELSE "raised"]
    /\ IF models = <<>>
       THEN /\ model_name' = [model_name EXCEPT ![t] = DefaultModel]
            /\ UNCHANGED model_rotation_counter
       ELSE /\ model_name' = [model_name EXCEPT ![t] = SelectModel(models, model_rotation_counter)]
            /\ model_rotation_counter' = NextCounter(model_rotation_counter)
    /\ selections' = Append(selections, [task |-> t, counter |-> model_rotation_counter,
                                         model |-> model_name'[t]])
    /\ client_model' = [client_model EXCEPT ![t] = IF lookup.exc = NoException
                                                   THEN model_name'[t] ELSE None]
    /\ UNCHANGED <<env_llm_models, last_response>>
    /\ UNCHANGED not_chat

\* the await of agent.run ends (agent.py 409-465): it raises, and the
\* exception leaves chat, which has no handler for it; or it returns, and
\* chat extracts the text and returns its payload
ChatFinish(t) ==
    /\ chat_pc[t] = "running"
    /\ \E outcome \in RunOutcomes :
          IF outcome.raised
          THEN /\ chat_pc' = [chat_pc EXCEPT ![t] = "raised"]
               /\ UNCHANGED last_response
          ELSE /\ chat_pc' = [chat_pc EXCEPT ![t] = "done"]
               /\ last_response' = Payload(t, ResponseModel(t), ExtractText(outcome.result))
    /\ UNCHANGED <<env_llm_models, model_rotation_counter, model_name, selections,
                   client_model>>
    /\ UNCHANGED agent_vars
    /\ UNCHANGED not_chat

RotatorNext == \E t \in Tasks : ChatStart(t) \/ ChatFinish(t)

(***************************************************************************)
(* The tool read_file: tools/handlers/tool_handlers.py                     *)
(***************************************************************************)
\* most segments of a filename
MaxSegments == 3

\* a path is the sequence of its components below the root
DataDir == <<"app", "data">>

\* the names a filename is made of
Segments == {"..", "app", "data", "data2", "a.txt"}

\* a filename: absolute or relative, and its segments
Filenames ==
    [absolute : BOOLEAN, segments : UNION {[1..n -> Segments] : n \in 0..MaxSegments}]

\* the directories and the files of the file system
Directories == {<<>>, <<"app">>, <<"app", "data">>, <<"app", "data2">>}

FileContent(path) ==
    CASE path = <<"app", "data", "a.txt">> -> "inside"
      [] path = <<"app", "data2", "a.txt">> -> "sibling"
      [] path = <<"app", "a.txt">> -> "outside"
      [] OTHER -> None

\* Path.exists()
Exists(path) == path \in Directories \/ FileContent(path) # None

\* data_dir / filename (line 325): an absolute filename replaces the directory
JoinPath(dir, name) == IF name.absolute THEN name.segments ELSE dir \o name.segments

\* Path.resolve() (line 327): the ".." segments are folded away; the file
\* system has no symbolic links
RECURSIVE ResolveFrom(_, _)
ResolveFrom(done, rest) ==
    IF rest = <<>> THEN done
    ELSE IF Head(rest) = ".."
         THEN ResolveFrom(IF done = <<>> THEN <<>> ELSE SubSeq(done, 1, Len(done) - 1),
                          Tail(rest))
         ELSE ResolveFrom(Append(done, Head(rest)), Tail(rest))

Resolve(path) == ResolveFrom(<<>>, path)

\* str.startswith on two of the names
NameStartsWith(name, prefix) == name = prefix \/ (prefix = "data" /\ name = "data2")

\* str(path).startswith(str(dir)) (line 328): a comparison of the two
\* strings, so the last component of dir may be a proper prefix of a component
StrStartsWith(path, dir) ==
    /\ Len(path) >= Len(dir)
    /\ SubSeq(path, 1, Len(dir) - 1) = SubSeq(dir, 1, Len(dir) - 1)
    /\ NameStartsWith(path[Len(dir)], dir[Len(dir)])

\* Path.relative_to(dir) succeeds (line 356): dir is a leading part of the
\* path, component by component
IsRelativeTo(path, dir) == Len(path) >= Len(dir) /\ SubSeq(path, 1, Len(dir)) = dir

\* what read_file answers: an error text, the content, or an exception
Answer(kind, content) == [kind |-> kind, content |-> content]
NoAnswer == Answer(None, None)

\* read_file (lines 302-386)
ReadFileAnswer(name) ==
    LET file_path == Resolve(JoinPath(DataDir, name)) IN
    IF ~StrStartsWith(file_path, Resolve(DataDir)) THEN Answer("access_denied", None)
    ELSE IF ~Exists(file_path) THEN Answer("file_not_found", None)
    ELSE IF file_path \in Directories THEN Answer("io_error", None)
    ELSE IF ~IsRelativeTo(file_path, DataDir) THEN Answer("ValueError", None)
    ELSE Answer("content", FileContent(file_path))

FileInit ==
    /\ filename \in Filenames
    /\ read_result = NoAnswer
    /\ read_pc = "start"

FileIdle ==
    /\ filename = [absolute |-> FALSE, segments |-> <<>>]
    /\ read_result = NoAnswer
    /\ read_pc = "start"

\* one call of read_file
ReadFile ==
    /\ read_pc = "start"
    /\ read_result' = ReadFileAnswer(filename)
    /\ read_pc' = "done"
    /\ UNCHANGED filename
    /\ UNCHANGED not_file

FileNext == ReadFile

(***************************************************************************)
(* The tool get_weather: tools/handlers/tool_handlers.py                   *)
(***************************************************************************)
\* what the request to the weather API can do: answer with the weather,
\* fail (requests.exceptions.RequestException), or answer without the
\* expected keys (KeyError)
ApiOutcomes ==
    {[kind |-> "ok", data |-> d] : d \in WeatherData}
    \cup {[kind |-> k, data |-> None] : k \in {"api_request_error", "data_parse_error"}}

\* the text built from the answer (lines 240-243): it names the city as
\* the caller wrote it
WeatherText(city, data) ==
    CASE city = "London" /\ data = "sunny" -> "Weather in London: sunny"
      [] city = "London" /\ data = "rain" -> "Weather in London: rain"
      [] city = "LONDON" /\ data = "sunny" -> "Weather in LONDON: sunny"
      [] city = "LONDON" /\ data = "rain" -> "Weather in LONDON: rain"
      [] city = "Paris" /\ data = "sunny" -> "Weather in Paris: sunny"
      [] OTHER -> "Weather in Paris: rain"

\* the error texts (lines 281, 300)
ErrorText(kind) ==
    IF kind = "api_request_error" THEN "Error fetching weather data"
    ELSE "Error parsing weather data"

NoWeather == [valid |-> FALSE, city |-> None, outcome |-> None, text |-> None]

\* faulty variant: the answer is stored whatever the outcome
StoresAlways(kind) == TRUE

\* weather_cache.set is reached only on the successful path (line 247)
Stores(kind) == kind = "ok"

WeatherInit ==
    /\ api_key \in BOOLEAN
    /\ api_calls = 0
    /\ last_weather = NoWeather

WeatherIdle ==
    /\ api_key = TRUE
    /\ api_calls = 0
    /\ last_weather = NoWeather

\* one call of get_weather (lines 123-300), a function without await:
\* weather_cache.get (weather_cache.py 49-101), then on a miss the request
\* to the API and, when it succeeded, weather_cache.set (112-123)
GetWeather(city) ==
    LET city_key == Lower(city)
        entry == cache_store[city_key]
        found == entry # NoEntry
        hit == found /\ IsFresh(now - entry.timestamp, ttl)
        after_get == IF found /\ ~hit THEN DeleteEntry(cache_store, city_key)
                     ELSE cache_store
    IN
    /\ gets < MaxGets
    /\ gets' = gets + 1
    /\ hits' = IF hit THEN hits + 1 ELSE hits
    /\ misses' = IF hit THEN misses ELSE CountMiss(misses, found)
    /\ last_get' = [NoGet EXCEPT !.valid = TRUE, !.key = city_key, !.found = found,
                                 !.result = IF hit THEN entry.data ELSE None]
    /\ last_stats' = NoStats
    /\ IF hit
       THEN /\ last_weather' = [valid |-> TRUE, city |-> city, outcome |-> "hit",
                                text |-> entry.data]
            /\ cache_store' = after_get
            /\ stored_at' = stored_at
            /\ last_set' = NoSet
            /\ last_op' = "get"
            /\ UNCHANGED <<api_calls, since_clear>>
       ELSE IF ~api_key
       THEN /\ last_weather' = [valid |-> TRUE, city |-> city,
                                outcome |-> "missing_api_key", text |-> None]
            /\ cache_store' = after_get
            /\ stored_at' = [stored_at EXCEPT ![city_key] = -1]
            /\ last_set' = NoSet
            /\ last_op' = "get"
            /\ UNCHANGED <<api_calls, since_clear>>
       ELSE \E reply \in ApiOutcomes :
            /\ api_calls' = api_calls + 1
            /\ IF Stores(reply.kind)
               THEN LET text == IF reply.kind = "ok" THEN WeatherText(city, reply.data)
                                ELSE ErrorText(reply.kind) IN
                    /\ last_weather' = [valid |-> TRUE, city |-> city,
                                        outcome |-> reply.kind, text |-> text]
                    /\ cache_store' = StoreEntry(after_get, city_key, text, city)
                    /\ stored_at' = [stored_at EXCEPT ![city_key] = now]
                    /\ last_set' = [valid |-> TRUE, key |-> city_key, data |-> text,
                                    at |-> now, recased |-> FALSE]
                    /\ last_op' = "set"
                    /\ since_clear' = FALSE
               ELSE /\ last_weather' = [valid |-> TRUE, city |-> city,
                                        outcome |-> reply.kind,
                                        text |-> ErrorText(reply.kind)]
                    /\ cache_store' = after_get
                    /\ stored_at' = [stored_at EXCEPT ![city_key] = -1]
                    /\ last_set' = NoSet
                    /\ last_op' = "get"
                    /\ UNCHANGED since_clear
    /\ UNCHANGED <<ttl, now, ticks, api_key>>
    /\ UNCHANGED not_weather

\* the calls of the tool, and the time that passes between them
WeatherNext == (\E city \in Cities : GetWeather(city)) \/ Tick

(***************************************************************************)
(* Specifications                                                          *)
(***************************************************************************)
\* a component that is not running: its state at start, with no request
GatewayIdle ==
    /\ scope = [type |-> "lifespan", path |-> ""]
    /\ stream = <<LifespanMessage>>
    /\ recv_count = 0
    /\ gw_pc = "start"
    /\ gw_exc = "none"
    /\ first_message = NoMessage
    /\ body_cache = <<>>
    /\ body_index = 0
    /\ transaction_name = NoName
    /\ tool_name = [type |-> None, value |-> ""]
    /\ app_receive = None
    /\ delivered = <<>>
    /\ app_send = None
    /\ app_sent = <<>>
    /\ out_log = <<>>

CacheIdle ==
    /\ cache_store = [k \in CityKeys |-> NoEntry]
    /\ ttl = 10 * SecondsPerMinute
    /\ hits = 0
    /\ misses = 0
    /\ now = 0
    /\ ticks = 0
    /\ CacheHistoryInit

RotatorIdle ==
    /\ env_llm_models = EnvUnset
    /\ model_rotation_counter = 0
    /\ chat_pc = [t \in Tasks |-> "idle"]
    /\ model_name = [t \in Tasks |-> None]
    /\ selections = <<>>
    /\ client_model = [t \in Tasks |-> None]
    /\ last_response = NoPayload

RegistryStart ==
    RegistryInit /\ GatewayIdle /\ CacheIdle /\ RotatorIdle /\ AgentInit
    /\ ExtractIdle /\ FileIdle /\ WeatherIdle
GatewayStart ==
    RegistryInit /\ GatewayInit /\ CacheIdle /\ RotatorIdle /\ AgentInit
    /\ ExtractIdle /\ FileIdle /\ WeatherIdle
CacheStart ==
    RegistryInit /\ GatewayIdle /\ CacheInit /\ RotatorIdle /\ AgentInit
    /\ ExtractIdle /\ FileIdle /\ WeatherIdle
\* the requests of a server whose startup went through
RotatorStart ==
    RegistryServed /\ GatewayIdle /\ CacheIdle /\ RotatorInit /\ AgentInit
    /\ ExtractIdle /\ FileIdle /\ WeatherIdle
AgentStart ==
    RegistryInit /\ GatewayIdle /\ CacheIdle /\ RotatorIdle /\ AgentInit
    /\ ExtractIdle /\ FileIdle /\ WeatherIdle
\* the server from its construction: the startup, then the requests
ServerStart ==
    RegistryInit /\ GatewayIdle /\ CacheIdle /\ RotatorIdle /\ AgentInit
    /\ ExtractIdle /\ FileIdle /\ WeatherIdle
ExtractStart ==
    RegistryInit /\ GatewayIdle /\ CacheIdle /\ RotatorIdle /\ AgentInit
    /\ ExtractInit /\ FileIdle /\ WeatherIdle

FileStart ==
    RegistryInit /\ GatewayIdle /\ CacheIdle /\ RotatorIdle /\ AgentInit
    /\ ExtractIdle /\ FileInit /\ WeatherIdle
WeatherStart ==
    RegistryInit /\ GatewayIdle /\ CacheInit /\ RotatorIdle /\ AgentInit
    /\ ExtractIdle /\ FileIdle /\ WeatherInit

ServerNext == LifespanNext \/ RotatorNext

SpecRegistry == RegistryStart /\ [][RegistryNext]_vars
SpecGateway == GatewayStart /\ [][GatewayNext]_vars
SpecCache == CacheStart /\ [][CacheNext]_vars
SpecRotator == RotatorStart /\ [][RotatorNext]_vars
SpecAgent == AgentStart /\ [][AgentNext]_vars
SpecServer == ServerStart /\ [][ServerNext]_vars
SpecExtract == ExtractStart /\ [][ExtractNext]_vars
SpecFile == FileStart /\ [][FileNext]_vars
SpecWeather == WeatherStart /\ [][WeatherNext]_vars

(***************************************************************************)
(* Properties of the tool-adapter registry (SpecRegistry)                  *)
(***************************************************************************)
\* the caller is between its first connector call and its return or raise
InFlight(c) == init_pc[c] \in {"connecting", "sleeping"}

\* the caller has issued connector calls
Performed(c) == InFlight(c) \/ init_outcome[c] \in {"success", "failure"}

\* C1: single-flight initialization: as long as no caller's initialization
\* has failed for good, only one caller (the first) has performed connector
\* calls, the others having waited for its outcome, and no more than one
\* successful batch of connector calls has been made.
C1_SingleFlight ==
    (\A c \in Callers : init_outcome[c] # "failure")
        => /\ Cardinality({c \in Callers : Performed(c)}) <= 1
           /\ batches <= 1

\* C2: at every moment at most one initialization attempt is in flight, and
\* the callers of one uninitialized window share its outcome: no caller is
\* still working on an attempt of its own once the registry is initialized.
C2_OneAttemptInFlight ==
    /\ Cardinality({c \in Callers : InFlight(c)}) <= 1
    /\ \A c \in Callers : InFlight(c) => ~tool_adapters_initialized

\* the four handles one attempt of one caller obtains
AttemptHandles(c, a) == [n \in ToolNames |-> NewHandle(c, a)]

\* C3: initialization is all-or-nothing per attempt: in every reachable
\* state the shared registry is either empty or holds all four handles of
\* one single attempt.
C3_AllOrNothing ==
    \/ tool_adapters_cache = [n \in ToolNames |-> NoHandle]
    \/ \E c \in Callers, a \in 0..(max_retries - 1) :
          tool_adapters_cache = AttemptHandles(c, a)

\* 2^n
RECURSIVE Pow2(_)
Pow2(n) == IF n = 0 THEN 1 ELSE 2 * Pow2(n - 1)

\* where a call stands: every call that has entered the retry loop is in one
\* of at most max_retries attempts; before each attempt but the first it has
\* waited the delays 1, 2, 4, ... in turn, so that the delay it holds is
\* base * 2^attempt; it waits only after an attempt that is not the last,
\* and raises only out of the last.
C11_Position(c) ==
    /\ attempt[c] \in 0..(max_retries - 1)
    /\ Performed(c) => retry_delay[c] = base_retry_delay * Pow2(attempt[c])
    /\ init_pc[c] = "sleeping" =>
          /\ attempt[c] < max_retries - 1
          /\ retry_delay[c] \in {1, 2, 4, 8}
    /\ init_pc[c] = "raised" => attempt[c] = max_retries - 1

\* what a call does next: a failed attempt that is not the last goes to the
\* wait and touches neither delay nor attempt number; the wait is followed
\* by the next attempt, its connector calls starting over; the failure of
\* the last attempt raises and changes neither flag nor registry; a call
\* that has raised does nothing more.
C11_Move(c) ==
    /\ (init_pc[c] = "connecting" /\ init_pc'[c] = "sleeping") =>
          /\ attempt'[c] = attempt[c]
          /\ retry_delay'[c] = retry_delay[c]
    /\ (init_pc[c] = "sleeping" /\ init_pc'[c] # "sleeping") =>
          /\ init_pc'[c] = "connecting"
          /\ attempt'[c] = attempt[c] + 1
          /\ retry_delay'[c] = 2 * retry_delay[c]
          /\ tool_idx'[c] = 1
    /\ (init_pc[c] = "connecting" /\ init_pc'[c] = "raised") =>
          /\ attempt[c] = max_retries - 1
          /\ tool_adapters_initialized' = tool_adapters_initialized
          /\ tool_adapters_cache' = tool_adapters_cache
    /\ init_pc[c] = "raised" =>
          /\ init_pc'[c] = "raised"
          /\ attempt'[c] = attempt[c]
          /\ retry_delay'[c] = retry_delay[c]

\* C11: retry with backoff: a failed attempt is followed by a wait of the
\* current delay and a new attempt; the delay starts at 1 s and doubles
\* after each failed attempt (1, 2, 4, 8); there are never more than 5
\* attempts; when the fifth fails the error is raised with no further wait
\* or attempt, and that failure leaves the registry uninitialized.
C11_RetryBackoff ==
    /\ [](\A c \in Callers : C11_Position(c))
    /\ [][\A c \in Callers : C11_Move(c)]_vars
    /\ []((\A c \in Callers : init_outcome[c] # "success") => ~tool_adapters_initialized)

\* a call has failed five times, having waited 1, 2, 4 and 8 seconds, and
\* has raised; the registry is uninitialized
C11_Witness ==
    \E c \in Callers :
        /\ init_pc[c] = "raised"
        /\ init_outcome[c] = "failure"
        /\ attempt[c] = 4
        /\ retry_delay[c] = 16
        /\ ~tool_adapters_initialized

\* C12: initialization is idempotent and the adapter set is built exactly
\* once: once an initialization has succeeded, a call made afterwards
\* returns at once without a connector call, and no step of any call
\* changes the adapter set or the flag any more.
C12_BuiltOnce ==
    [][tool_adapters_initialized =>
          /\ tool_adapters_cache' = tool_adapters_cache
          /\ tool_adapters_initialized'
          /\ \A c \in Callers :
                (init_pc[c] = "idle" /\ init_pc'[c] # "idle") =>
                    (init_pc'[c] = "returned" /\ init_outcome'[c] = "skipped")]_vars

\* the errors of the connection itself
RetryableErrors == {"ConnectionError", "TimeoutError"}

\* C13: failure classification: a connector error (refused connection,
\* timeout, malformed handshake) is retried, but a configuration error such
\* as an unknown tool name is fatal at once: it is raised on the attempt
\* where it occurs, with no wait and no retry.
C13_ConfigErrorFatal ==
    \A c \in Callers :
        /\ (init_exc[c] \in RetryableErrors /\ attempt[c] < max_retries - 1) =>
                init_pc[c] = "sleeping"
        /\ init_exc[c] = "ValueError" => init_pc[c] = "raised"

\* C13, as the code has it: every exception of a connector call, the
\* ValueError of an unknown tool name included, is handled alike: before
\* the last attempt it is followed by the backoff wait and a retry, and it
\* is raised to the caller only out of the last attempt.
C13_AllErrorsRetried ==
    \A c \in Callers :
        /\ init_exc[c] \in ConnectorErrors =>
              /\ attempt[c] < max_retries - 1 => init_pc[c] = "sleeping"
              /\ attempt[c] = max_retries - 1 => init_pc[c] = "raised"
        /\ init_pc[c] \in {"sleeping", "raised"} => init_exc[c] \in ConnectorErrors
        /\ init_pc[c] = "raised" => attempt[c] = max_retries - 1

\* the first attempt met an unknown tool name and the call is waiting to retry
C13_Witness ==
    \E c \in Callers :
        /\ init_exc[c] = "ValueError"
        /\ attempt[c] = 0
        /\ init_pc[c] = "sleeping"
        /\ retry_delay[c] = base_retry_delay

(***************************************************************************)
(* Properties of the tool lookup (SpecAgent)                               *)
(***************************************************************************)
\* the step is a lookup
LookupStep == agent_vars' # agent_vars

\* the handles a lookup finds, in the order of the lookup
CachedHandles == [i \in 1..Len(LookupOrder) |-> tool_adapters_cache[LookupOrder[i]]]

\* a lookup makes no connector call and leaves registry and flag alone
LookupOnly == registry_vars' = registry_vars

ConsumedChunk ==
    /\ scope.type = "http"
    /\ gw_pc \in {"app", "done"}
    /\ first_message.type = "http.request"

\* C4: read-then-replay: when the gateway consumed the first body chunk,
\* the downstream application's first read returns that very chunk, every
\* later read takes the next message of the upstream stream, and so what
\* the application has read is exactly what the upstream delivered, in order.
C4_ReadThenReplay ==
    ConsumedChunk =>
        /\ delivered = SubSeq(stream, 1, Len(delivered))
        /\ Len(delivered) >= 1 => delivered[1] = first_message
        /\ recv_count = IF Len(delivered) = 0 THEN 1 ELSE Len(delivered)

\* an inspected tools/call request of which the application has read the
\* replayed chunk and a further message
C4_Witness ==
    /\ ConsumedChunk
    /\ Inspected(first_message, scope.path)
    /\ tool_name = [type |-> "str", value |-> "calculator"]
    /\ Len(delivered) >= 2
    /\ delivered[2] = stream[2]

\* C5: inspection never fails the request: whatever the body, no exception
\* of the inspection leaves the gateway, and the downstream application is
\* called.
C5_InspectionNeverFails == gw_pc # "failed" /\ gw_exc = "none"

\* the gateway has handled the HTTP request up to the call of the application
HandledHttp == scope.type = "http" /\ gw_pc # "start"

\* the first chunk has a body that decodes to a JSON value, on the
\* tool-invocation path
DecodedOnToolPath ==
    /\ first_message.type = "http.request"
    /\ first_message.body.enc = "json"
    /\ scope.path = "/mcp"

\* the method string of the decoded envelope ("" when there is none)
EnvelopeMethod ==
    IF first_message.body.mtype = "str" THEN first_message.body.method ELSE ""

\* the generic label of a path
GenericLabel(path) ==
    IF path \in {"/health", "/"} THEN "MCP/Tools/Health" ELSE "MCP/Tools/"

\* C21: the label is a function of the request: on the tool-invocation
\* path a decoded envelope with method tools/call gives a label that
\* includes params.name, tools/list, initialize and ping give fixed labels,
\* any other method a label derived from the method string; an empty or
\* undecodable body, or another path, gives the generic label of the
\* path; and every HTTP request gets exactly one label.
C21_LabelFunction ==
    HandledHttp =>
        /\ transaction_name # NoName
        /\ IF DecodedOnToolPath
           THEN CASE EnvelopeMethod = "tools/call" ->
                       /\ transaction_name.kind = "MCP/Tools/Call/"
                       /\ transaction_name.arg = tool_name
                       /\ first_message.body.ntype = "str" =>
                              tool_name.value = first_message.body.name
                  [] EnvelopeMethod = "tools/list" ->
                       transaction_name.kind = "MCP/Tools/ListTools"
                  [] EnvelopeMethod = "initialize" ->
                       transaction_name.kind = "MCP/Tools/Initialize"
                  [] EnvelopeMethod = "ping" ->
                       transaction_name.kind = "MCP/Tools/Ping"
                  [] OTHER ->
                       /\ transaction_name.kind = "MCP/Tools/"
                       /\ transaction_name.arg.type = "method"
           ELSE /\ transaction_name.kind = GenericLabel(scope.path)
                /\ transaction_name.arg.type \in {None, "path"}

\* the positions of out_log at which a message went to the outer send
SendPositions == {i \in 1..Len(out_log) : out_log[i].event = "send"}

\* the positions at which a response start carrying a status went out
StartPositions ==
    {i \in SendPositions : /\ out_log[i].message.type = "http.response.start"
                           /\ out_log[i].message.status # NoStatus}

\* the positions at which the attribute key was attached
AttributePositions(key) ==
    {i \in 1..Len(out_log) : out_log[i].event = "attribute" /\ out_log[i].key = key}

\* the messages given to the outer send, in order
RECURSIVE Forwarded(_)
Forwarded(log) ==
    IF log = <<>> THEN <<>>
    ELSE IF log[1].event = "send" THEN <<log[1].message>> \o Forwarded(Tail(log))
    ELSE Forwarded(Tail(log))

\* the gateway wrapped the send callable of this request
Wrapped == app_send = "send_wrapper"

\* C22 as stated: on the outbound path both the status code label and the
\* total duration label are attached before the response is sent onward,
\* and every response message is forwarded to the outer send unchanged.
C22_LabelsBeforeResponse ==
    (Wrapped /\ gw_pc = "done") =>
        /\ \A i \in StartPositions :
              /\ \E j \in AttributePositions("http.status_code") :
                    j < i /\ out_log[j].value = out_log[i].message.status
              /\ \E k \in AttributePositions("http.duration_ms") : k < i
        /\ Forwarded(out_log) = app_sent

\* C22 as the gateway behaves: the status code of a response start is
\* attached immediately before that message is forwarded; the duration is
\* attached once, when the application has returned, after every message
\* it sent was forwarded; the messages are forwarded unchanged and in order.
C22_StatusBeforeDurationAfter ==
    Wrapped =>
        /\ \A i \in StartPositions :
              i > 1 /\ out_log[i - 1] = Attached("http.status_code", out_log[i].message.status)
        /\ Forwarded(out_log) = app_sent
        /\ IF gw_pc = "done"
           THEN AttributePositions("http.duration_ms") = {Len(out_log)}
           ELSE AttributePositions("http.duration_ms") = {}

\* a finished request whose application sent a 500 start and a body
C22_Witness ==
    /\ Wrapped
    /\ gw_pc = "done"
    /\ Len(app_sent) = 2
    /\ app_sent[1].type = "http.response.start" /\ app_sent[1].status = 500
    /\ app_sent[2].type = "http.response.body"
    /\ Len(out_log) = 4

\* C23: a non-HTTP scope (lifespan, websocket) is passed downstream
\* untouched: the application gets the server's own receive and send, the
\* gateway consumes no message of the stream and attaches no label.
C23_PassThrough ==
    (scope.type # "http" /\ gw_pc # "start") =>
        /\ gw_pc \in {"app", "done"}
        /\ app_receive = "receive"
        /\ app_send = "send"
        /\ first_message = NoMessage
        /\ body_cache = <<>>
        /\ recv_count = Len(delivered)
        /\ delivered = SubSeq(stream, 1, Len(delivered))
        /\ transaction_name = NoName
        /\ AttributePositions("http.status_code") = {}
        /\ AttributePositions("http.duration_ms") = {}
        /\ Forwarded(out_log) = app_sent

\* a websocket scope whose application read a message, sent a response
\* start with a status, and returned
C23_Witness ==
    /\ scope.type = "websocket"
    /\ gw_pc = "done"
    /\ Len(delivered) >= 1
    /\ Len(app_sent) >= 1
    /\ app_sent[1].type = "http.response.start" /\ app_sent[1].status = 200

C6_NeverStale ==
    (last_get.valid /\ last_get.result # None)
        => /\ last_get.age >= 0
           /\ last_get.age < ttl

\* a get returned a value stored a second less than the TTL ago
C6_Witness ==
    /\ last_get.valid
    /\ last_get.result # None
    /\ ttl = 10 * SecondsPerMinute
    /\ last_get.age = ttl - 1

\* C7: a get that is the next operation after a set of the same normalized
\* key returns the stored value when less than the TTL has elapsed, and
\* returns nothing and removes the entry otherwise; with a TTL of ten
\* minutes 9m59s hits and 10m00s misses and evicts; with a TTL of zero
\* every get misses.
C7_GetAfterSet ==
    /\ (last_get.valid /\ last_get.after_set) =>
          /\ last_get.elapsed < ttl =>
                (last_get.result = last_get.set_data /\ last_get.left)
          /\ last_get.elapsed >= ttl => (last_get.result = None /\ ~last_get.left)
          /\ (ttl = 10 * SecondsPerMinute /\ last_get.elapsed = 10 * SecondsPerMinute - 1)
                => last_get.result = last_get.set_data
          /\ (ttl = 10 * SecondsPerMinute /\ last_get.elapsed = 10 * SecondsPerMinute)
                => (last_get.result = None /\ ~last_get.left)
    /\ (last_get.valid /\ ttl = 0) => (last_get.result = None /\ ~last_get.left)

\* with a TTL of ten minutes, a get exactly ten minutes after the set of
\* its key missed and evicted the entry
C7_Witness ==
    /\ last_get.valid
    /\ last_get.after_set
    /\ last_get.found
    /\ ttl = 10 * SecondsPerMinute
    /\ last_get.elapsed = 10 * SecondsPerMinute
    /\ last_get.result = None
    /\ ~last_get.left

\* the steps of the operations
GetStep == last_op' = "get" /\ gets' = gets + 1
ClearStep == last_op' = "clear" /\ now' = now
SetStep == last_op' = "set" /\ now' = now
StatsStep == last_op' = "get_stats" /\ now' = now

\* the entries of the store that the step removes
Removed == {k \in CityKeys : cache_store[k] # NoEntry /\ cache_store'[k] = NoEntry}

\* what a get does to counters and store
C15_Get ==
    GetStep =>
        LET k == last_get'.key
            e == cache_store[k]
            fresh == e # NoEntry /\ now - e.timestamp < ttl
        IN /\ k \in CityKeys
           /\ hits' + misses' = hits + misses + 1
           /\ IF fresh
              THEN /\ hits' = hits + 1
                   /\ misses' = misses
                   /\ last_get'.result = e.data
                   /\ Removed = {}
              ELSE /\ misses' = misses + 1
                   /\ hits' = hits
                   /\ last_get'.result = None
                   /\ Removed = IF e # NoEntry THEN {k} ELSE {}
           /\ \A j \in CityKeys \ {k} : cache_store'[j] = cache_store[j]

\* what the other steps (set, clear, get_stats, the passing of time) do
C15_Other ==
    ~GetStep =>
        /\ hits' = hits
        /\ misses' = misses
        /\ gets' = gets
        /\ Removed # {} => ClearStep

\* C15: every get increments exactly one of the two counters by one: hits
\* if and only if it returns a fresh entry, misses if the key is absent or
\* its entry expired; an expired entry is deleted by the get that finds
\* it; entries are removed only by such a get or by clear; so hits + misses
\* is the number of gets so far.
C15_Counting ==
    /\ [](hits + misses = gets)
    /\ [][C15_Get /\ C15_Other]_vars

\* three gets, one hit and two misses; the latest found an entry that had
\* expired, counted a miss and removed the entry
C15_Witness ==
    /\ gets = 3
    /\ hits = 1
    /\ misses = 2
    /\ last_op = "get"
    /\ last_get.found
    /\ last_get.result = None
    /\ ~last_get.left
    /\ cache_store[last_get.key] = NoEntry
    /\ ttl > 0

\* what a set does: the entry under the folded key holds the new value,
\* the city as given and the current time, whatever was there before;
\* nothing else changes
C17_Set ==
    SetStep =>
        LET k == last_set'.key
            e == cache_store'[k]
        IN /\ k \in CityKeys
           /\ e.data = last_set'.data
           /\ e.timestamp = now
           /\ e.city \in Cities
           /\ Lower(e.city) = k
           /\ last_set'.recased => (cache_store[k] # NoEntry /\ cache_store[k].city # e.city)
           /\ \A j \in CityKeys \ {k} : cache_store'[j] = cache_store[j]
           /\ hits' = hits
           /\ misses' = misses

\* an entry appears or changes only by a set of its key
C17_OnlySetWrites ==
    \A k \in CityKeys :
        (cache_store'[k] # cache_store[k] /\ cache_store'[k] # NoEntry) =>
            (SetStep /\ last_set'.key = k)

\* C17: set folds the case of the key, replaces whatever entry is stored
\* under any casing of it and stamps the entry with the current time, so
\* that an overwrite restarts the age; per key the last write wins: a get
\* that finds the entry fresh returns the value of the latest set of the
\* folded key; keys that differ only in case share one entry.
C17_LastWriteWins ==
    /\ [][C17_Set /\ C17_OnlySetWrites]_vars
    /\ [](\A k \in CityKeys : cache_store[k] # NoEntry =>
              (Lower(cache_store[k].city) = k /\ cache_store[k].timestamp = stored_at[k]))
    /\ []((last_get.valid /\ last_get.after_set /\ last_get.elapsed < ttl) =>
              (last_get.result = last_get.set_data /\ last_get.age = last_get.elapsed))

\* "LONDON" was set over an entry stored as "London" some time before: the
\* one entry under "london" holds the new value and the time of this set
C17_Witness ==
    /\ last_op = "set"
    /\ last_set.valid
    /\ last_set.recased
    /\ last_set.key = "london"
    /\ cache_store["london"] = WeatherCacheEntry("rain", now, "LONDON")
    /\ now > 0
    /\ CacheSize(cache_store) = 1

\* C18: clear removes all entries: the size becomes 0, and every get
\* after it and before a new set is a miss; the cumulative counters hits
\* and misses are left as they were.
C18_Clear ==
    /\ [][ClearStep =>
            /\ CacheSize(cache_store') = 0
            /\ hits' = hits
            /\ misses' = misses
            /\ gets' = gets]_vars
    /\ [](since_clear => CacheSize(cache_store) = 0)
    /\ []((last_get.valid /\ last_get.after_clear) =>
              (last_get.result = None /\ ~last_get.found))
    /\ [][(GetStep /\ since_clear) => (misses' = misses + 1 /\ hits' = hits)]_vars

\* a get after a clear missed, within the TTL of anything stored before;
\* the hit counted before the clear is still counted
C18_Witness ==
    /\ since_clear
    /\ last_op = "get"
    /\ last_get.after_clear
    /\ last_get.result = None
    /\ hits = 1
    /\ misses = 2
    /\ now < ttl
    /\ CacheSize(cache_store) = 0

\* C19: get_stats is a pure read: however often and in whatever state it
\* is called, it changes neither the stored entries nor the counters, and
\* the size it reports is the number of entries stored at that moment,
\* expired entries that no get has met yet included.
C19_StatsPure ==
    /\ [][StatsStep =>
            /\ cache_store' = cache_store
            /\ hits' = hits
            /\ misses' = misses
            /\ gets' = gets
            /\ ttl' = ttl
            /\ last_stats'.hits = hits
            /\ last_stats'.misses = misses
            /\ last_stats'.size = Cardinality({k \in CityKeys : cache_store[k] # NoEntry})]_vars
    /\ [](last_stats.valid =>
              /\ last_stats.hits = hits
              /\ last_stats.misses = misses
              /\ last_stats.size = Cardinality({k \in CityKeys : cache_store[k] # NoEntry}))

\* statistics taken while the only entry has expired and no get has met
\* it: the size is 1
C19_Witness ==
    /\ last_op = "get_stats"
    /\ last_stats.valid
    /\ last_stats.size = 1
    /\ ttl > 0
    /\ \E k \in CityKeys :
          /\ cache_store[k] # NoEntry
          /\ now - cache_store[k].timestamp >= ttl

\* |x|
Abs(x) == IF x < 0 THEN -x ELSE x

\* C16: in every reachable state the hit_rate_percent of the statistics
\* equals 100 * hits / (hits + misses) when hits + misses > 0, and 0
\* otherwise.  (The rate is held in hundredths of a percent.)
C16_HitRateExact ==
    last_stats.valid =>
        IF hits + misses > 0
        THEN last_stats.hit_rate_percent * (hits + misses) = 100 * 100 * hits
        ELSE last_stats.hit_rate_percent = 0

\* C16, as the code has it: hit_rate_percent is 100 * hits / (hits + misses)
\* rounded to two decimals, so it is within half a hundredth of that
\* value, and equal to it where the value has no more than two decimals;
\* it is 0 when hits + misses = 0.
C16_HitRateRounded ==
    last_stats.valid =>
        /\ last_stats.hits = hits
        /\ last_stats.misses = misses
        /\ IF hits + misses > 0
           THEN /\ 2 * Abs(last_stats.hit_rate_percent * (hits + misses) - 100 * 100 * hits)
                      <= hits + misses
                /\ (100 * 100 * hits) % (hits + misses) = 0 =>
                      last_stats.hit_rate_percent * (hits + misses) = 100 * 100 * hits
                /\ last_stats.hit_rate_percent \in 0..(100 * 100)
           ELSE last_stats.hit_rate_percent = 0

\* two hits and a miss: the statistics report 66.67 percent
C16_Witness ==
    /\ last_stats.valid
    /\ hits = 2
    /\ misses = 1
    /\ last_stats.hit_rate_percent = 6667

(***************************************************************************)
(* Properties of the model rotation (SpecRotator)                          *)
(***************************************************************************)
\* the configured list
Models == get_llm_models(env_llm_models)

\* C8: over a non-empty list of K models the i-th call returns
\* models[counter mod K] for the counter it found, which is i - 1, and
\* leaves the counter one higher; the selections have period K, and K
\* consecutive calls return the list once, in order, from their offset.
C8_RoundRobin ==
    Models # <<>> =>
        LET K == Len(Models) IN
        /\ model_rotation_counter = Len(selections)
        /\ \A i \in 1..Len(selections) :
              /\ selections[i].counter = i - 1
              /\ selections[i].model = Models[((i - 1) % K) + 1]
              /\ i + K <= Len(selections) => selections[i + K].model = selections[i].model
              /\ i + K - 1 <= Len(selections) =>
                    \A j \in 0..(K - 1) :
                        selections[i + j].model = Models[((selections[i].counter + j) % K) + 1]

\* a list of three models and more calls than models
C8_Witness ==
    /\ Len(Models) = 3
    /\ Len(selections) >= 4
    /\ selections[4].model = Models[1]

\* C9: next() is atomic for concurrent callers: no two calls found the same
\* counter value, and every call advanced the counter exactly once.
C9_AtomicNext ==
    Models # <<>> =>
        /\ \A i, j \in 1..Len(selections) :
              i # j => selections[i].counter # selections[j].counter
        /\ model_rotation_counter = Len(selections)

\* two requests are in flight together, the later one having started first
C9_Witness ==
    /\ Models # <<>>
    /\ Len(selections) >= 2
    /\ selections[1].task > selections[2].task
    /\ chat_pc[selections[1].task] = "running"
    /\ chat_pc[selections[2].task] = "running"

\* how many of the calls so far returned the model at position k
CountAt(k) == Cardinality({i \in 1..Len(selections) : (selections[i].counter % Len(Models)) + 1 = k})

\* how many of the calls so far returned model m
CountOf(m) == Cardinality({i \in 1..Len(selections) : selections[i].model = m})

Distinct(seq) == \A i, j \in 1..Len(seq) : i # j => seq[i] # seq[j]

C20_NonEmptyList ==
    \A i \in 1..Len(selections) :
        /\ Models # <<>>
        /\ selections[i].model # ""
        /\ \E k \in 1..Len(Models) : Models[k] = selections[i].model


(***************************************************************************)
(* Properties of the chat handler (SpecRotator, SpecServer, SpecExtract)   *)
(***************************************************************************)
\* C24 as stated: a failure of the LLM call or of a tool call at request
\* time does not abort the chat handler: no request ends by an exception,
\* each returns a payload.
C24_NeverAborted == \A t \in Tasks : chat_pc[t] # "raised"

\* the calls of get_next_llm_model made by request t
SelectionsOf(t) == {i \in 1..Len(selections) : selections[i].task = t}

\* the model the one call of request t returned
SelectedModel(t) == selections[CHOOSE i \in SelectionsOf(t) : TRUE].model

\* C25: each chat request calls get_next_llm_model exactly once; the model
\* its LLM client is built with and the model field of its payload are the
\* value that call returned, whatever other requests did in between.
C25_OneModelPerRequest ==
    /\ [](\A t \in Tasks :
             IF chat_pc[t] = "idle" THEN SelectionsOf(t) = {}
             ELSE /\ Cardinality(SelectionsOf(t)) = 1
                  /\ model_name[t] = SelectedModel(t)
                  /\ chat_pc[t] \in {"running", "done"} => client_model[t] = SelectedModel(t)
                  /\ last_response.task = t =>
                        chat_pc[t] = "done" /\ last_response.model = SelectedModel(t))
    /\ [][\A t \in Tasks :
             (chat_pc[t] = "running" /\ chat_pc'[t] = "done") =>
                 /\ last_response'.task = t
                 /\ last_response'.model = SelectedModel(t)
                 /\ client_model[t] = SelectedModel(t)]_vars

\* a request got its model, a second request then got a different one,
\* and the first returned its payload while the second was still running
C25_Witness ==
    /\ Len(selections) >= 2
    /\ selections[2].model # selections[1].model
    /\ chat_pc[selections[2].task] = "running"
    /\ last_response.task = selections[1].task
    /\ last_response.model = selections[1].model

\* the text of the dict blocks of type text, in order
RECURSIVE TextTypedOnly(_)
TextTypedOnly(blocks) ==
    IF blocks = <<>> THEN <<>>
    ELSE (IF Head(blocks).shape = "dict" /\ Head(blocks).type = "text"
          THEN Head(blocks).text ELSE <<>>) \o TextTypedOnly(Tail(blocks))

\* a block that has text: a dict of type text, or a plain string
Textual(b) == (b.shape = "dict" /\ b.type = "text") \/ b.shape = "str"

\* the text of the textual blocks, in order
RECURSIVE TextOfTextual(_)
TextOfTextual(blocks) ==
    IF blocks = <<>> THEN <<>>
    ELSE (IF Textual(Head(blocks)) THEN Head(blocks).text ELSE <<>>)
         \o TextOfTextual(Tail(blocks))

\* the extraction ran on a result with a last message
Extracted == extract_pc = "done" /\ result.has_messages

\* C26 as stated: a string content is the response text; of a list of
\* blocks the response text is the concatenation, in order, of the text of
\* the text-typed blocks only, every other block contributing nothing.
C26_OnlyTextTyped ==
    Extracted =>
        /\ result.content.kind = "str" => response_text = result.content.text
        /\ result.content.kind = "list" =>
              response_text = TextTypedOnly(result.content.blocks)

\* C26 as the handler behaves: a string content is the response text; of a
\* list the response text is the concatenation, in order, of the text of
\* the text-typed dict blocks and of the blocks that are plain strings; a
\* list with no such block gives str(content).
C26_TextualBlocks ==
    Extracted =>
        /\ result.content.kind = "str" => response_text = result.content.text
        /\ result.content.kind = "list" =>
              IF \E i \in 1..Len(result.content.blocks) : Textual(result.content.blocks[i])
              THEN response_text = TextOfTextual(result.content.blocks)
              ELSE response_text = Repr(result.content)

\* a list of a text block, an image block and a plain string
C26_Witness ==
    /\ Extracted
    /\ result.content.kind = "list"
    /\ Len(result.content.blocks) = 3
    /\ result.content.blocks[1] = Block("dict", "text", TRUE, <<"b">>)
    /\ result.content.blocks[2].type = "image"
    /\ result.content.blocks[3].shape = "str"
    /\ response_text = <<"b", "a">>

\* the registry holds the four adapters of the lifespan's last attempt
RegistryComplete ==
    /\ tool_adapters_initialized
    /\ init_outcome[Lifespan] = "success"
    /\ \A n \in ToolNames : tool_adapters_cache[n] = NewHandle(Lifespan, attempt[Lifespan])

\* C28: no chat request is handled before the startup initialization has
\* returned successfully; when it exhausts its retries no request is ever
\* served; and the lookup of a chat request finds the registry complete.
C28_NoChatBeforeInit ==
    /\ []((\E t \in Tasks : chat_pc[t] # "idle") =>
             /\ RegistryComplete
             /\ agent_exc = NoException
             /\ agent_tools = [i \in 1..Len(LookupOrder) |->
                                  NewHandle(Lifespan, attempt[Lifespan])])
    /\ [](init_outcome[Lifespan] = "failure" => \A t \in Tasks : chat_pc[t] = "idle")
    /\ [][\A t \in Tasks : chat_pc'[t] # chat_pc[t] => RegistryComplete]_vars

\* the startup went through at a retry, and a request was then answered
C28_Witness ==
    /\ init_outcome[Lifespan] = "success"
    /\ attempt[Lifespan] >= 1
    /\ \E t \in Tasks : chat_pc[t] = "done" /\ last_response.task = t


(***************************************************************************)
(* Properties of the tools (SpecFile, SpecWeather)                         *)
(***************************************************************************)
\* the resolved path of the file that read_file was asked for
ResolvedPath == Resolve(JoinPath(DataDir, filename))

\* the path lies in the data directory, component by component
InDataDir(path) == Len(path) >= Len(DataDir) /\ SubSeq(path, 1, Len(DataDir)) = DataDir

\* C27: read_file is confined to the data directory: whatever the
\* filename, it never returns the content of a file whose resolved path
\* lies outside the data directory, and it answers every such request
\* with the access-denied error.
C27_Sandboxed ==
    read_pc = "done" =>
        /\ read_result.kind = "content" => InDataDir(ResolvedPath)
        /\ ~InDataDir(ResolvedPath) => read_result.kind = "access_denied"

\* a call of get_weather was taken in this step
WeatherStep == gets' = gets + 1

\* the entry of the key is within its TTL, by the time it was stored
WithinTtl(key) == stored_at[key] >= 0 /\ now - stored_at[key] < ttl

\* the successful texts for a key
SuccessTexts(key) ==
    {WeatherText(c, d) : c \in {x \in Cities : Lower(x) = key}, d \in WeatherData}

\* C30: weather lookups go through the cache: a lookup of a city that has
\* no stored result within its TTL (the first one above all) is a miss
\* that goes to the remote API and stores the result only when it
\* succeeded; a lookup of the same city, in any letter case, within the
\* TTL is a hit that returns the stored text and sends nothing to the
\* API; a failed lookup (request error, parse error, missing API key)
\* leaves nothing stored for the city.
C30_ThroughCache ==
    /\ [](\A k \in CityKeys :
             cache_store[k] # NoEntry =>
                 /\ cache_store[k].data \in SuccessTexts(k)
                 /\ cache_store[k].timestamp = stored_at[k])
    /\ [][WeatherStep =>
            LET k == Lower(last_weather'.city) IN
            /\ last_weather'.valid
            /\ \A j \in CityKeys \ {k} : cache_store'[j] = cache_store[j]
            /\ IF WithinTtl(k)
               THEN /\ last_weather'.outcome = "hit"
                    /\ last_weather'.text = cache_store[k].data
                    /\ api_calls' = api_calls
                    /\ cache_store' = cache_store
               ELSE /\ last_weather'.outcome # "hit"
                    /\ api_calls' = IF api_key THEN api_calls + 1 ELSE api_calls
                    /\ ~api_key => last_weather'.outcome = "missing_api_key"
                    /\ IF last_weather'.outcome = "ok"
                       THEN cache_store'[k] =
                                WeatherCacheEntry(last_weather'.text, now, last_weather'.city)
                       ELSE cache_store'[k] = NoEntry]_vars

\* London was looked up and stored, and within the TTL the lookup of
\* LONDON was answered from the cache with the text stored for London
C30_Witness ==
    /\ last_weather.valid
    /\ last_weather.city = "LONDON"
    /\ last_weather.outcome = "hit"
    /\ last_weather.text \in {WeatherText("London", d) : d \in WeatherData}
    /\ api_calls = 1
    /\ now > stored_at["london"]

====
